---- MODULE Spec2Model ----
(***************************************************************************)
(* Model of pyAeroTools/aero/airfoil.py: naca_four_digit_series.            *)
(*                                                                         *)
(* One call of the function is a run of the state machine: the arguments   *)
(* are chosen in Init, and each block of the function body is one action.  *)
(*                                                                         *)
(* Numbers.  Python floats and numpy float64 values are modelled as exact  *)
(* rationals <<n, d>> in lowest terms with d > 0; NaN is <<0, 0>>.  The     *)
(* results of np.sqrt, np.sin and np.cos are rounded towards zero to a     *)
(* multiple of 1 / Resolution, as a float rounds them to its grid; they    *)
(* are exact wherever the exact result lies on the grid (sqrt 0, sqrt 1,   *)
(* sin 0, cos 0).  An angle is held by its tangent.                        *)
(***************************************************************************)
EXTENDS Integers, Sequences, FiniteSets

\* ---------------------------------------------------------------- bounds
\* num_points ranges over -1 .. MaxPoints
MaxPoints == 3
\* designations of a length other than 4 have 0 .. MaxLen characters
MaxLen == 5
\* np.sqrt, np.sin, np.cos are rounded to multiples of 1 / Resolution
Resolution == 4

\* the chords tried, the default chord 1.0 first
Chords == << <<1, 1>>, <<2, 1>>, <<0, 1>>, <<-1, 1>> >>
DigitChars == {"0", "1", "2", "3", "5"}
OtherChars == {"-", "+", " ", "a"}
Alphabet == DigitChars \cup OtherChars
ShortAlphabet == {"1", "-"}
IntInputs == {-123, -12, 0, 12, 123, 1212, 2512, 12345}
ExampleStrings == {<<"1", "2", "3">>, <<"1", "2", "3", "4", "5">>}

\* ------------------------------------------------------------ arithmetic
Abs(a) == IF a < 0 THEN -a ELSE a

RECURSIVE GCD(_, _)
GCD(a, b) == IF b = 0 THEN a ELSE GCD(b, a % b)

NaN == <<0, 0>>
IsNaN(a) == a[2] = 0

Norm(n, d) ==
    LET g == GCD(Abs(n), Abs(d))
        s == IF d < 0 THEN -1 ELSE 1
    IN  <<(s * n) \div g, (s * d) \div g>>

Rat(n) == <<n, 1>>

FNeg(a) == <<-a[1], a[2]>>

FAdd(a, b) ==
    IF IsNaN(a) \/ IsNaN(b) THEN NaN
    ELSE LET g == GCD(a[2], b[2])
         IN  Norm(a[1] * (b[2] \div g) + b[1] * (a[2] \div g), (a[2] \div g) * b[2])

FSub(a, b) == FAdd(a, FNeg(b))

FMul(a, b) ==
    IF IsNaN(a) \/ IsNaN(b) THEN NaN
    ELSE LET g1 == GCD(Abs(a[1]), b[2])
             g2 == GCD(Abs(b[1]), a[2])
         IN  <<(a[1] \div g1) * (b[1] \div g2), (a[2] \div g2) * (b[2] \div g1)>>

\* a / b for b # 0 (a Python float division by zero raises instead)
FDiv(a, b) ==
    IF IsNaN(a) \/ IsNaN(b) THEN NaN
    ELSE FMul(a, IF b[1] < 0 THEN <<-b[2], -b[1]>> ELSE <<b[2], b[1]>>)

FLess(a, b) == ~IsNaN(a) /\ ~IsNaN(b) /\ a[1] * b[2] < b[1] * a[2]

IsZero(a) == ~IsNaN(a) /\ a[1] = 0

RECURSIVE FPow(_, _)
FPow(a, k) == IF k = 0 THEN Rat(1) ELSE FMul(a, FPow(a, k - 1))

RECURSIVE SqrtSearch(_, _, _)
SqrtSearch(v, lo, hi) ==
    IF lo >= hi THEN lo
    ELSE LET mid == (lo + hi + 1) \div 2
         IN  IF mid * mid <= v THEN SqrtSearch(v, mid, hi)
             ELSE SqrtSearch(v, lo, mid - 1)

\* floor of the square root of a natural number
ISqrt(v) == SqrtSearch(v, 0, v)

\* np.sqrt: NaN for a negative argument
Sqrt(a) ==
    IF IsNaN(a) \/ a[1] < 0 THEN NaN
    ELSE Norm(ISqrt((a[1] * Resolution * Resolution) \div a[2]), Resolution)

\* np.arctan2(y, 1): the angle in (-pi/2, pi/2) whose tangent is y
ArcTan2One(y) == [tan |-> y]

\* np.cos of such an angle: 1 / sqrt(1 + tan^2)
Cos(th) ==
    IF IsNaN(th.tan) THEN NaN
    ELSE LET n == th.tan[1]
             d == th.tan[2]
         IN  Norm(ISqrt((Resolution * Resolution * d * d) \div (d * d + n * n)), Resolution)

\* np.sin of such an angle: tan / sqrt(1 + tan^2)
Sin(th) ==
    IF IsNaN(th.tan) THEN NaN
    ELSE LET n == th.tan[1]
             d == th.tan[2]
             r == ISqrt((Resolution * Resolution * n * n) \div (d * d + n * n))
         IN  Norm(IF n < 0 THEN -r ELSE r, Resolution)

\* ------------------------------------------------------- strings, int()
Digits == <<"0", "1", "2", "3", "4", "5", "6", "7", "8", "9">>

IsDigit(c) == \E k \in 1..10 : Digits[k] = c

DigitVal(c) == (CHOOSE k \in 1..10 : Digits[k] = c) - 1

RECURSIVE NatStr(_)
NatStr(n) == IF n < 10 THEN <<Digits[n + 1]>>
             ELSE NatStr(n \div 10) \o <<Digits[(n % 10) + 1]>>

\* str(n) of a Python int
Str(n) == IF n < 0 THEN <<"-">> \o NatStr(-n) ELSE NatStr(n)

Bad == [ok |-> FALSE, val |-> 0]
Good(v) == [ok |-> TRUE, val |-> v]

\* int(s) for a string s of one or two characters: surrounding whitespace
\* is stripped, one leading sign is accepted, the rest must be digits;
\* anything else raises ValueError (ok = FALSE)
IntOf(s) ==
    IF Len(s) = 1 THEN (IF IsDigit(s[1]) THEN Good(DigitVal(s[1])) ELSE Bad)
    ELSE IF IsDigit(s[1]) /\ IsDigit(s[2]) THEN Good(10 * DigitVal(s[1]) + DigitVal(s[2]))
    ELSE IF s[1] = "-" /\ IsDigit(s[2]) THEN Good(-DigitVal(s[2]))
    ELSE IF s[1] = "+" /\ IsDigit(s[2]) THEN Good(DigitVal(s[2]))
    ELSE IF s[1] = " " /\ IsDigit(s[2]) THEN Good(DigitVal(s[2]))
    ELSE IF IsDigit(s[1]) /\ s[2] = " " THEN Good(DigitVal(s[1]))
    ELSE Bad

\* ------------------------------------------------------ the function body
\* lines 24-25: an int argument is replaced by its decimal string
Normalize(arg) == IF arg.type = "int" THEN Str(arg.int) ELSE arg.str

\* a length check that only rejects designations that are too short
ValidLengthAtLeast(s) == Len(s) >= 4

\* line 27: the assertion's condition
ValidLength(s) == Len(s) = 4

\* lines 32-34
ParseM(s, c) == FMul(FDiv(Rat(IntOf(<<s[1]>>).val), Rat(100)), c)
ParseP(s, c) == FMul(FDiv(Rat(IntOf(<<s[2]>>).val), Rat(10)), c)
ParseT(s, c) == FMul(FDiv(Rat(IntOf(<<s[3], s[4]>>).val), Rat(100)), c)

\* lines 32-34: some int() raises ValueError
ParseFails(s) ==
    \/ ~IntOf(<<s[1]>>).ok
    \/ ~IntOf(<<s[2]>>).ok
    \/ ~IntOf(<<s[3], s[4]>>).ok

\* a sampling that leaves the end point out (np.linspace with endpoint=False)
LinspaceOpen(start, stop, num) ==
    LET step == FDiv(FSub(stop, start), Rat(num))
    IN  [i \in 1..num |-> FAdd(start, FMul(Rat(i - 1), step))]

\* line 37: np.linspace(start, stop, num), endpoint included
Linspace(start, stop, num) ==
    IF num = 1 THEN <<start>>
    ELSE LET step == FDiv(FSub(stop, start), Rat(num - 1))
         IN  [i \in 1..num |->
                IF i = num THEN stop ELSE FAdd(start, FMul(Rat(i - 1), step))]

\* lines 42-45: the Python float division of the branch taken divides by zero
CamberDivByZero(mm, pp, x) ==
    IF FLess(x, pp) THEN IsZero(FPow(pp, 2))
    ELSE IsZero(FPow(FSub(Rat(1), pp), 2))

\* lines 42-45
YcAt(mm, pp, x) ==
    IF FLess(x, pp)
    THEN FMul(FDiv(mm, FPow(pp, 2)),
              FSub(FMul(FMul(Rat(2), pp), x), FPow(x, 2)))
    ELSE FMul(FDiv(mm, FPow(FSub(Rat(1), pp), 2)),
              FSub(FAdd(FSub(Rat(1), FMul(Rat(2), pp)), FMul(FMul(Rat(2), pp), x)),
                   FPow(x, 2)))

\* lines 40-46: the loop over the stations
CamberRaises(mm, pp, xs) == \E i \in 1..Len(xs) : CamberDivByZero(mm, pp, xs[i])
CamberLine(mm, pp, xs) == [i \in 1..Len(xs) |-> YcAt(mm, pp, xs[i])]

Coef(n) == Norm(n, 10000)

\* line 49, at one station
YtAt(tt, x) ==
    FMul(FDiv(tt, Norm(2, 10)),
         FSub(FAdd(FSub(FSub(FMul(Coef(2969), Sqrt(x)),
                             FMul(Coef(1260), x)),
                        FMul(Coef(3516), FPow(x, 2))),
                   FMul(Coef(2843), FPow(x, 3))),
              FMul(Coef(1015), FPow(x, 4))))

\* line 49
ThicknessDist(tt, xs) == [i \in 1..Len(xs) |-> YtAt(tt, xs[i])]

\* lines 54-57
DycAt(mm, pp, x) ==
    IF FLess(x, pp)
    THEN FMul(FDiv(mm, FPow(pp, 2)),
              FSub(FMul(Rat(2), pp), FMul(Rat(2), x)))
    ELSE FMul(FDiv(mm, FPow(FSub(Rat(1), pp), 2)),
              FSub(FMul(Rat(2), pp), FMul(Rat(2), x)))

\* lines 52-58: the loop over the stations
SlopeLine(mm, pp, xs) == [i \in 1..Len(xs) |-> DycAt(mm, pp, xs[i])]

\* line 61
Theta(dyc) == [i \in 1..Len(dyc) |-> ArcTan2One(dyc[i])]

\* lines 62-66: one row of the result
Row(x, c, th, y) ==
    << FSub(x, FMul(y, Sin(th))),
       FAdd(c, FMul(y, Cos(th))),
       FAdd(x, FMul(y, Sin(th))),
       FSub(c, FMul(y, Cos(th))) >>

\* lines 62-66
ColumnStack(xs, ycs, ths, yts) ==
    [i \in 1..Len(xs) |-> Row(xs[i], ycs[i], ths[i], yts[i])]

\* ---------------------------------------------------------------- state
VARIABLES
    naca_number,  \* the first argument: [type, int, str]
    chord,        \* the second argument
    num_points,   \* the third argument
    pc,           \* the block of the body to run next, or "done" / "error"
    error,        \* the exception raised: [kind, digits]
    m, p, t,      \* <<>> until line 32-34 has run
    x_stations, yc, yt, dyc_dx, theta,
    airfoil       \* the returned rows

vars == <<naca_number, chord, num_points, pc, error, m, p, t,
          x_stations, yc, yt, dyc_dx, theta, airfoil>>

NoError == [kind |-> "", digits |-> 0]

RECURSIVE Strings(_, _)
Strings(alphabet, n) ==
    IF n = 0 THEN {<<>>}
    ELSE {s \o <<c>> : s \in Strings(alphabet, n - 1), c \in alphabet}

StrArg(s) == [type |-> "str", int |-> 0, str |-> s]
IntArg(n) == [type |-> "int", int |-> n, str |-> <<>>]

Designations ==
    {StrArg(s) : s \in Strings(Alphabet, 4)}
    \cup {StrArg(s) : s \in UNION {Strings(ShortAlphabet, n) : n \in 0..MaxLen}}
    \cup {StrArg(s) : s \in ExampleStrings}
    \cup {IntArg(n) : n \in IntInputs}

Init ==
    /\ \E k \in 1..Len(Chords) : chord = Chords[k]
    /\ naca_number \in Designations
    /\ num_points \in -1..MaxPoints
    /\ pc = "check"
    /\ error = NoError
    /\ m = <<>> /\ p = <<>> /\ t = <<>>
    /\ x_stations = <<>> /\ yc = <<>> /\ yt = <<>>
    /\ dyc_dx = <<>> /\ theta = <<>> /\ airfoil = <<>>

Raise(kind, n) ==
    /\ pc' = "error"
    /\ error' = [kind |-> kind, digits |-> n]

\* lines 24-27
CheckInput ==
    /\ pc = "check"
    /\ naca_number' = StrArg(Normalize(naca_number))
    /\ IF ValidLength(Normalize(naca_number))
       THEN pc' = "parse" /\ error' = error
       ELSE Raise("AssertionError", Len(Normalize(naca_number)))
    /\ UNCHANGED <<chord, num_points, m, p, t, x_stations, yc, yt, dyc_dx,
                   theta, airfoil>>

\* lines 32-34
ParseDigits ==
    /\ pc = "parse"
    /\ IF ParseFails(naca_number.str)
       THEN Raise("ValueError", 0) /\ UNCHANGED <<m, p, t>>
       ELSE /\ m' = ParseM(naca_number.str, chord)
            /\ p' = ParseP(naca_number.str, chord)
            /\ t' = ParseT(naca_number.str, chord)
            /\ pc' = "stations"
            /\ error' = error
    /\ UNCHANGED <<naca_number, chord, num_points, x_stations, yc, yt, dyc_dx,
                   theta, airfoil>>

\* line 37: np.linspace rejects a negative number of samples
InitStations ==
    /\ pc = "stations"
    /\ IF num_points < 0
       THEN Raise("ValueError", 0) /\ UNCHANGED x_stations
       ELSE /\ x_stations' = Linspace(Rat(0), chord, num_points)
            /\ pc' = "camber"
            /\ error' = error
    /\ UNCHANGED <<naca_number, chord, num_points, m, p, t, yc, yt, dyc_dx,
                   theta, airfoil>>

\* lines 40-46
MeanCamber ==
    /\ pc = "camber"
    /\ IF CamberRaises(m, p, x_stations)
       THEN Raise("ZeroDivisionError", 0) /\ UNCHANGED yc
       ELSE /\ yc' = CamberLine(m, p, x_stations)
            /\ pc' = "thickness"
            /\ error' = error
    /\ UNCHANGED <<naca_number, chord, num_points, m, p, t, x_stations, yt,
                   dyc_dx, theta, airfoil>>

\* line 49
Thickness ==
    /\ pc = "thickness"
    /\ yt' = ThicknessDist(t, x_stations)
    /\ pc' = "slope"
    /\ UNCHANGED <<naca_number, chord, num_points, error, m, p, t, x_stations,
                   yc, dyc_dx, theta, airfoil>>

\* lines 52-58
CamberSlope ==
    /\ pc = "slope"
    /\ IF CamberRaises(m, p, x_stations)
       THEN Raise("ZeroDivisionError", 0) /\ UNCHANGED dyc_dx
       ELSE /\ dyc_dx' = SlopeLine(m, p, x_stations)
            /\ pc' = "surface"
            /\ error' = error
    /\ UNCHANGED <<naca_number, chord, num_points, m, p, t, x_stations, yc,
                   yt, theta, airfoil>>

\* lines 61-67
Surfaces ==
    /\ pc = "surface"
    /\ theta' = Theta(dyc_dx)
    /\ airfoil' = ColumnStack(x_stations, yc, Theta(dyc_dx), yt)
    /\ pc' = "done"
    /\ UNCHANGED <<naca_number, chord, num_points, error, m, p, t, x_stations,
                   yc, yt, dyc_dx>>

Next ==
    \/ CheckInput
    \/ ParseDigits
    \/ InitStations
    \/ MeanCamber
    \/ Thickness
    \/ CamberSlope
    \/ Surfaces

Spec == Init /\ [][Next]_vars

\* ---------------------------------------------------------------- claims
Zero == Rat(0)

\* IEEE comparisons: NaN is neither equal to nor ordered with anything
FLeq(a, b) == ~IsNaN(a) /\ ~IsNaN(b) /\ a[1] * b[2] <= b[1] * a[2]
FEq(a, b) == ~IsNaN(a) /\ ~IsNaN(b) /\ a = b
FAbs(a) == <<Abs(a[1]), a[2]>>

Checked == pc # "check"
Designation == naca_number.str
AllDigits(s) == Len(s) = 4 /\ \A i \in 1..4 : IsDigit(s[i])
Stations == 1..Len(x_stations)

\* C1: a designation whose normalized string has a length n other than 4
\* fails with the assertion error reporting n, before any parameter is
\* parsed or any station computed, and returns no coordinates.
C1_WrongLengthRejected ==
    (Checked /\ Len(Designation) # 4) =>
        /\ pc = "error"
        /\ error = [kind |-> "AssertionError", digits |-> Len(Designation)]
        /\ m = <<>> /\ p = <<>> /\ t = <<>>
        /\ x_stations = <<>> /\ yc = <<>> /\ yt = <<>> /\ dyc_dx = <<>>
        /\ airfoil = <<>>

\* C1 witness: the integer 12345 was rejected with digit count 5
C1_Witness ==
    /\ pc = "error"
    /\ Designation = <<"1", "2", "3", "4", "5">>
    /\ error.digits = 5

\* C2: a designation of length 4 with a character that is not a decimal
\* digit fails with the invalid-designation (assertion) error at the
\* validation boundary, and no coordinates are returned for it.
C2_NonDigitRejected ==
    (Checked /\ Len(Designation) = 4 /\ ~AllDigits(Designation)) =>
        /\ pc = "error"
        /\ error.kind = "AssertionError"
        /\ airfoil = <<>>

\* C3: for four decimal digits, any chord and num_points >= 2 the call
\* raises no error (no division by zero in the camber computations).
C3_TotalOnValidInput ==
    (AllDigits(Designation) /\ num_points >= 2) => pc # "error"

\* C4: when the camber position p is 0, at every station yc = 0 and
\* dyc/dx = 0, so xUpper = xLower = x and yUpper = -yLower = yt.
C4_FlatCamberAtZeroPosition ==
    (pc = "done" /\ AllDigits(Designation) /\ IsZero(p)) =>
        \A i \in Stations :
            /\ IsZero(yc[i]) /\ IsZero(dyc_dx[i])
            /\ FEq(airfoil[i][1], x_stations[i])
            /\ FEq(airfoil[i][3], x_stations[i])
            /\ FEq(airfoil[i][2], yt[i])
            /\ FEq(airfoil[i][4], FNeg(yt[i]))

\* C5: for four decimal digits the first output row is (0, 0, 0, 0).
C5_LeadingEdgeAtOrigin ==
    (pc = "done" /\ AllDigits(Designation) /\ num_points >= 1) =>
        airfoil[1] = <<Zero, Zero, Zero, Zero>>

RowsAreStations ==
    /\ Len(airfoil) = num_points
    /\ \A i \in 1..Len(airfoil) :
          /\ Len(airfoil[i]) = 4
          /\ i \in Stations
          /\ airfoil[i] = Row(x_stations[i], yc[i], theta[i], yt[i])

\* C6 as stated: a call that returns has num_points rows of 4 values, row
\* i is the tuple of station i, and the stations run from 0 to chord
\* inclusive in non-decreasing order.
C6_StationsNonDecreasing ==
    pc = "done" =>
        /\ RowsAreStations
        /\ num_points >= 1 =>
              /\ x_stations[1] = Zero
              /\ x_stations[num_points] = chord
        /\ \A i \in Stations :
              i + 1 \in Stations => FLeq(x_stations[i], x_stations[i + 1])

\* C6 amended: a call that returns has num_points rows of 4 values, row i
\* is the tuple of station i, the first station is 0, the last station is
\* chord when num_points >= 2, and the stations are monotonic from 0
\* towards chord: non-decreasing for chord >= 0, non-increasing for
\* chord <= 0.
C6_StationsTowardsChord ==
    pc = "done" =>
        /\ RowsAreStations
        /\ num_points >= 1 => x_stations[1] = Zero
        /\ num_points >= 2 => x_stations[num_points] = chord
        /\ \A i \in Stations :
              i + 1 \in Stations =>
                 /\ FLeq(Zero, chord) => FLeq(x_stations[i], x_stations[i + 1])
                 /\ FLeq(chord, Zero) => FLeq(x_stations[i + 1], x_stations[i])

\* C6 witness: three stations returned for chord -1, the middle one -1/2
C6_Witness ==
    /\ pc = "done"
    /\ num_points = 3
    /\ chord = <<-1, 1>>
    /\ x_stations[2] = <<-1, 2>>
    /\ Len(airfoil) = 3

\* C7: for designation "0012", any chord and any num_points >= 0, the
\* call returns and every row has yUpper = -yLower and xUpper = xLower.
C7_SymmetricSection ==
    (Designation = <<"0", "0", "1", "2">> /\ num_points >= 0) =>
        /\ pc # "error"
        /\ pc = "done" =>
              \A i \in 1..Len(airfoil) :
                 /\ FEq(airfoil[i][2], FNeg(airfoil[i][4]))
                 /\ FEq(airfoil[i][1], airfoil[i][3])

\* C8: for four decimal digits, any chord and num_points >= 2, at the
\* last station yc = 0 and |yUpper| <= yt, |yLower| <= yt.
C8_TrailingEdgeCloses ==
    (pc = "done" /\ AllDigits(Designation) /\ num_points >= 2) =>
        /\ IsZero(yc[num_points])
        /\ FLeq(FAbs(airfoil[num_points][2]), yt[num_points])
        /\ FLeq(FAbs(airfoil[num_points][4]), yt[num_points])

\* the call with the chord doubled, designation and num_points kept
Chord2 == FMul(Rat(2), chord)
M2 == ParseM(Designation, Chord2)
P2 == ParseP(Designation, Chord2)
T2 == ParseT(Designation, Chord2)
Stations2 == Linspace(Zero, Chord2, num_points)
Twice(row) == [k \in 1..Len(row) |-> FMul(Rat(2), row[k])]

\* C9: when the call and the call with the chord doubled both return,
\* doubling chord doubles the mean camber ordinate at every station and
\* leaves the camber slope unchanged, on both branches; where the
\* thickness term vanishes (thickness digits 00) every coordinate doubles.
C9_LinearInChord ==
    (pc = "done" /\ AllDigits(Designation) /\ ~CamberRaises(M2, P2, Stations2)) =>
        /\ \A i \in Stations :
              /\ FEq(YcAt(M2, P2, Stations2[i]), FMul(Rat(2), yc[i]))
              /\ FEq(DycAt(M2, P2, Stations2[i]), dyc_dx[i])
        /\ IsZero(t) =>
              \A i \in Stations :
                 Row(Stations2[i], YcAt(M2, P2, Stations2[i]),
                     ArcTan2One(DycAt(M2, P2, Stations2[i])),
                     YtAt(T2, Stations2[i])) = Twice(airfoil[i])

\* C10: once the designation is parsed and stations are computed,
\* maxCamber >= 0, camberPosition >= 0 and maxThickness >= 0.
C10_ParametersNonNegative ==
    pc \in {"camber", "thickness", "slope", "surface", "done"} =>
        /\ FLeq(Zero, m)
        /\ FLeq(Zero, p)
        /\ FLeq(Zero, t)

====
